---- MODULE Spec2Model ----
(***************************************************************************)
(* k-means by Lloyd's algorithm over the Thrill dataflow primitives        *)
(* (examples/k-means/k-means.hpp).                                         *)
(*                                                                         *)
(* A Point is a vector of doubles.  The model keeps every coordinate as an *)
(* exact rational: a Point is [num |-> <<n1..nD>>, den |-> d] in lowest    *)
(* terms, so an input point has den = 1 and a centroid sum/count is        *)
(* reduced by the gcd.  A squared distance is a rational <<n, d>>.         *)
(* Rounding of double arithmetic is outside the model.                     *)
(***************************************************************************)
EXTENDS Integers, Sequences, FiniteSets, TLC

\* ---------------------------------------------------------------- bounds
MaxPoints == 3                 \* input points of one KMeans run
MaxIter == 2                   \* largest value of the iterations argument
Coord == 0 .. 3                \* coordinates of the input points
Dims == {1}                    \* dimensions D the runs are instantiated with
Workers == {1, 2}              \* partitions / workers of the dataflow engine
ClusterCounts == 0 .. 2        \* values of the num_clusters argument

\* ------------------------------------------------------ exact arithmetic
Abs(x) == IF x < 0 THEN -x ELSE x

RECURSIVE GCD(_, _)
GCD(a, b) == IF b = 0 THEN a ELSE GCD(b, a % b)

NormR(r) ==
    LET g == GCD(Abs(r[1]), r[2]) IN <<r[1] \div g, r[2] \div g>>

AddR(a, b) == NormR(<<a[1] * b[2] + b[1] * a[2], a[2] * b[2]>>)

LessR(a, b) == a[1] * b[2] < b[1] * a[2]

LeqR(a, b) == a[1] * b[2] <= b[1] * a[2]

RECURSIVE SeqGCD(_, _)
SeqGCD(s, g) == IF s = <<>> THEN g ELSE SeqGCD(Tail(s), GCD(Abs(Head(s)), g))

NormP(p) ==
    LET g == SeqGCD(p.num, p.den)
    IN  [num |-> [i \in DOMAIN p.num |-> p.num[i] \div g], den |-> p.den \div g]

RECURSIVE SumSq(_)
SumSq(s) == IF s = <<>> THEN 0 ELSE Head(s) * Head(s) + SumSq(Tail(s))

\* ------------------------------------------------------------- Vector<D>
MkPoint(xs) == [num |-> xs, den |-> 1]

PointAdd(a, b) ==
    NormP([num |-> [i \in DOMAIN a.num |-> a.num[i] * b.den + b.num[i] * a.den],
           den |-> a.den * b.den])

PointDiv(a, c) == NormP([num |-> a.num, den |-> a.den * c])

DistanceSquare(p, q) ==
    NormR(<<SumSq([i \in DOMAIN p.num |-> p.num[i] * q.den - q.num[i] * p.den]),
            (p.den * q.den) * (p.den * q.den)>>)

\* ------------------------------------------------- the nearest-centroid scan
\* The loop of Classify, ComputeCost and the assign step: i is the 0-based
\* loop index, cs[i + 1] is centroids_[i].  Returns <<closest_id, min_dist>>.
\* The scan with <= for <: a later centroid at equal distance replaces the
\* earlier one.
RECURSIVE ScanLastWins(_, _, _, _, _)
ScanLastWins(p, cs, i, min_dist, closest_id) ==
    IF ~(i < Len(cs)) THEN <<closest_id, min_dist>>
    ELSE LET dist == DistanceSquare(p, cs[i + 1])
         IN  IF LeqR(dist, min_dist)
             THEN ScanLastWins(p, cs, i + 1, dist, i)
             ELSE ScanLastWins(p, cs, i + 1, min_dist, closest_id)

RECURSIVE Scan(_, _, _, _, _)
Scan(p, cs, i, min_dist, closest_id) ==
    IF ~(i < Len(cs)) THEN <<closest_id, min_dist>>
    ELSE LET dist == DistanceSquare(p, cs[i + 1])
         IN  IF LessR(dist, min_dist)
             THEN Scan(p, cs, i + 1, dist, i)
             ELSE Scan(p, cs, i + 1, min_dist, closest_id)

\* Classify(p) on a non-empty centroid vector.
Classify(p, cs) == Scan(p, cs, 1, DistanceSquare(p, cs[1]), 0)[1]

\* ComputeCost(p) on a non-empty centroid vector.
ComputeCost(p, cs) == Scan(p, cs, 1, DistanceSquare(p, cs[1]), 0)[2]

\* ------------------------------------------------------- records of the run
\* ClosestCentroid { cluster_id, CentroidAccumulated { p, count } }
MkClosest(id, p, n) == [cluster_id |-> id, center |-> [p |-> p, count |-> n]]

\* Key extractor of ReduceByKey.
KeyOf(cc) == cc.cluster_id

\* The combine function keeping a's point instead of the sum.
CombineDropsPoint(a, b) ==
    MkClosest(a.cluster_id, a.center.p, a.center.count + b.center.count)

\* The combine function counting b as one point.
CombineCountsOne(a, b) ==
    MkClosest(a.cluster_id,
              PointAdd(a.center.p, b.center.p),
              a.center.count + 1)

\* Combine function of ReduceByKey.
Combine(a, b) ==
    MkClosest(a.cluster_id,
              PointAdd(a.center.p, b.center.p),
              a.center.count + b.center.count)

\* The Map after ReduceByKey without the division.
ToCentroidNoDivide(cc) == cc.center.p

\* The Map after ReduceByKey: accumulated sum divided by the count.
ToCentroid(cc) == PointDiv(cc.center.p, cc.center.count)

\* Outcomes of the scan's first read, centroids[0], when the vector is empty.
\* The read is out of bounds: the run faults (the assert of the assign step in
\* a build with assertions, a trap otherwise) or goes on with an arbitrary
\* min_dist, and then the loop body never runs and closest_id stays 0.
Garbage == {<<0, 1>>, <<7, 1>>}

\* Outcomes of Classify(p) and of the scan of the assign step.
ClassifyOutcomes(p, cs) ==
    IF Len(cs) = 0
    THEN {[fault |-> TRUE, id |-> 0], [fault |-> FALSE, id |-> 0]}
    ELSE {[fault |-> FALSE, id |-> Classify(p, cs)]}

\* Outcomes of ComputeCost(p).
CostOutcomes(p, cs) ==
    IF Len(cs) = 0
    THEN {[fault |-> TRUE, cost |-> <<0, 1>>]}
            \cup {[fault |-> FALSE, cost |-> g] : g \in Garbage}
    ELSE {[fault |-> FALSE, cost |-> ComputeCost(p, cs)]}

\* ------------------------------------------------ the dataflow engine's side
\* A reduce table holds at most one record per key; an arriving record is
\* combined into the record that is already there.
TableInsert(T, cc) ==
    IF \E e \in T : KeyOf(e) = KeyOf(cc)
    THEN LET e == CHOOSE x \in T : KeyOf(x) = KeyOf(cc)
         IN  (T \ {e}) \cup {Combine(e, cc)}
    ELSE T \cup {cc}

Injective(s) == \A i, j \in DOMAIN s : i # j => s[i] # s[j]

\* Every order in which the elements of a finite set can be delivered.
Orders(S) == {s \in [1 .. Cardinality(S) -> S] : Injective(s)}

\* Every way to draw k of the indices 1..n without replacement.
Draws(n, k) == {s \in [1 .. k -> 1 .. n] : Injective(s)}

RECURSIVE LexLeq(_, _)
LexLeq(a, b) ==
    IF a = <<>> THEN TRUE
    ELSE IF Head(a) # Head(b) THEN Head(a) < Head(b)
    ELSE LexLeq(Tail(a), Tail(b))

\* The input datasets: up to MaxPoints points of one dimension, listed in
\* nondecreasing order (the dataset is a multiset; `part` places the points).
Inputs ==
    UNION {{s \in [1 .. n -> [1 .. d -> Coord]] :
                \A i \in 1 .. n - 1 : LexLeq(s[i], s[i + 1])}
           : n \in 0 .. MaxPoints, d \in Dims}

VARIABLES
    pts,              \* the cached input points, a sequence of Points
    part,             \* part[j]: the worker that holds pts[j]
    dimensions,       \* argument of KMeans
    num_clusters,     \* argument of KMeans
    iterations,       \* argument of KMeans
    pc,               \* "sample", "loop", "assign", "done", "error", "pool"
    iter,             \* loop counter of KMeans
    centroids,        \* the DIA centroids, as a materialized sequence
    local_centroids,  \* local_centroids[w]: the vector captured by the Map closure
    assigned,         \* assigned[j]: cluster id emitted for pts[j], -1 before
    pre,              \* pre[w]: worker w's local reduce table
    post,             \* the reduce table after the exchange
    emitted_ids,      \* keys of ReduceByKey's output, in delivery order
    model,            \* the KMeansModel
    query,            \* outcome of the last Classify / ComputeCost call
    sample,           \* the initial centroids, as Sample delivered them
    pool,             \* records being merged by the combine function alone
    pool_in           \* the records the merge started from

vars == <<pts, part, dimensions, num_clusters, iterations, pc, iter, centroids,
          local_centroids, assigned, pre, post, emitted_ids, model, query, sample,
          pool, pool_in>>

NoQuery == [op |-> "none", p |-> <<>>, fault |-> FALSE, id |-> 0, cost |-> <<0, 1>>]

NoModel == [dimensions |-> 0, num_clusters |-> 0, iterations |-> 0, centroids |-> <<>>]

N == Len(pts)

\* KMeans is called: arguments and the partitioned, cached input.
Init ==
    /\ \E s \in Inputs :
        /\ pts = [j \in DOMAIN s |-> MkPoint(s[j])]
        /\ part \in [DOMAIN s -> Workers]
    /\ dimensions \in Dims
    /\ num_clusters \in ClusterCounts
    /\ iterations \in 0 .. MaxIter
    /\ pc = "sample"
    /\ iter = 0
    /\ centroids = <<>>
    /\ local_centroids = [w \in Workers |-> <<>>]
    /\ assigned = [j \in DOMAIN pts |-> -1]
    /\ pre = [w \in Workers |-> {}]
    /\ post = {}
    /\ emitted_ids = <<>>
    /\ model = NoModel
    /\ query = NoQuery
    /\ sample = <<>>
    /\ pool = <<>>
    /\ pool_in = <<>>

\* centroids = points.Keep().Sample(num_clusters)
Sample ==
    /\ pc = "sample"
    /\ IF num_clusters > N
       THEN /\ pc' = "error"
            /\ UNCHANGED <<centroids, sample>>
       ELSE /\ \E s \in Draws(N, num_clusters) :
                 centroids' = [i \in 1 .. num_clusters |-> pts[s[i]]]
            /\ sample' = centroids'
            /\ pc' = "loop"
    /\ UNCHANGED <<pts, part, dimensions, num_clusters, iterations, iter,
                   local_centroids, assigned, pre, post, emitted_ids, model,
                   query, pool, pool_in>>

\* The loop head handing the second worker the centroids without the last
\* one.
AllGatherPartial ==
    /\ pc = "loop"
    /\ iter < iterations
    /\ local_centroids' =
          [w \in Workers |->
              IF w = 1 THEN centroids
              ELSE SubSeq(centroids, 1, Len(centroids) - 1)]
    /\ assigned' = [j \in DOMAIN pts |-> -1]
    /\ pre' = [w \in Workers |-> {}]
    /\ post' = {}
    /\ pc' = "assign"
    /\ UNCHANGED <<pts, part, dimensions, num_clusters, iterations, iter,
                   centroids, emitted_ids, model, query, sample, pool, pool_in>>

\* The loop head with the Map closure left holding the moved-from vector.
AllGatherMovedFrom ==
    /\ pc = "loop"
    /\ iter < iterations
    /\ local_centroids' = [w \in Workers |-> <<>>]
    /\ assigned' = [j \in DOMAIN pts |-> -1]
    /\ pre' = [w \in Workers |-> {}]
    /\ post' = {}
    /\ pc' = "assign"
    /\ UNCHANGED <<pts, part, dimensions, num_clusters, iterations, iter,
                   centroids, emitted_ids, model, query, sample, pool, pool_in>>

\* Loop head with iter < iterations: local_centroids = centroids.AllGather(),
\* moved into the closure of the Map; the reduce tables of the new
\* ReduceByKey start empty.
AllGather ==
    /\ pc = "loop"
    /\ iter < iterations
    /\ local_centroids' = [w \in Workers |-> centroids]
    /\ assigned' = [j \in DOMAIN pts |-> -1]
    /\ pre' = [w \in Workers |-> {}]
    /\ post' = {}
    /\ pc' = "assign"
    /\ UNCHANGED <<pts, part, dimensions, num_clusters, iterations, iter,
                   centroids, emitted_ids, model, query, sample, pool, pool_in>>

\* The next point of worker w, in the order of the dataset.
Pending(w) == {j \in DOMAIN pts : part[j] = w /\ assigned[j] = -1}

NextPoint(w) == CHOOSE j \in Pending(w) : \A k \in Pending(w) : j <= k

\* The Map lambda on worker w's next point, fused with the insertion of its
\* output into the worker's reduce table.
MapStep(w) ==
    /\ pc = "assign"
    /\ Pending(w) # {}
    /\ LET j == NextPoint(w) IN
       \E out \in ClassifyOutcomes(pts[j], local_centroids[w]) :
          IF out.fault
          THEN /\ pc' = "error"
               /\ UNCHANGED <<assigned, pre>>
          ELSE /\ assigned' = [assigned EXCEPT ![j] = out.id]
               /\ pre' = [pre EXCEPT ![w] =
                             TableInsert(@, MkClosest(out.id, pts[j], 1))]
               /\ pc' = pc
    /\ UNCHANGED <<pts, part, dimensions, num_clusters, iterations, iter,
                   centroids, local_centroids, post, emitted_ids, model,
                   query, sample, pool, pool_in>>

\* Worker w, done with its points, sends one record of its table to the
\* exchange, where it is combined with the record of the same key.
Flush(w) ==
    /\ pc = "assign"
    /\ Pending(w) = {}
    /\ \E cc \in pre[w] :
        /\ pre' = [pre EXCEPT ![w] = @ \ {cc}]
        /\ post' = TableInsert(post, cc)
    /\ UNCHANGED <<pts, part, dimensions, num_clusters, iterations, pc, iter,
                   centroids, local_centroids, assigned, emitted_ids, model,
                   query, sample, pool, pool_in>>

\* The record of key k in table T.
Entry(T, k) == CHOOSE e \in T : KeyOf(e) = k

Keys(T) == {KeyOf(e) : e \in T}

\* ReduceByKey delivers one record per key, in any order; the Map divides
\* each sum by its count; Collapse; ++iter.
Collect ==
    /\ pc = "assign"
    /\ \A j \in DOMAIN pts : assigned[j] # -1
    /\ \A w \in Workers : pre[w] = {}
    /\ \E o \in Orders(Keys(post)) :
        /\ emitted_ids' = o
        /\ centroids' = [i \in DOMAIN o |-> ToCentroid(Entry(post, o[i]))]
    /\ iter' = iter + 1
    /\ pc' = "loop"
    /\ UNCHANGED <<pts, part, dimensions, num_clusters, iterations,
                   local_centroids, assigned, pre, post, model, query, sample,
                   pool, pool_in>>

\* Loop exit: return KMeansModel(dimensions, num_clusters, iterations,
\* centroids.AllGather()).
Return ==
    /\ pc = "loop"
    /\ ~(iter < iterations)
    /\ model' = [dimensions |-> dimensions, num_clusters |-> num_clusters,
                 iterations |-> iterations, centroids |-> centroids]
    /\ pc' = "done"
    /\ UNCHANGED <<pts, part, dimensions, num_clusters, iterations, iter,
                   centroids, local_centroids, assigned, pre, post,
                   emitted_ids, query, sample, pool, pool_in>>

\* --------------------------------------------------- the model's queries
Range(s) == {s[i] : i \in DOMAIN s}

\* KMeansModel::Classify(p)
ModelClassify ==
    /\ pc = "done"
    /\ \E p \in Range(pts) :
       \E out \in ClassifyOutcomes(p, model.centroids) :
          query' = [op |-> "Classify", p |-> p, fault |-> out.fault,
                    id |-> out.id, cost |-> <<0, 1>>]
    /\ UNCHANGED <<pts, part, dimensions, num_clusters, iterations, pc, iter,
                   centroids, local_centroids, assigned, pre, post,
                   emitted_ids, model, sample, pool, pool_in>>

\* KMeansModel::ComputeCost(p)
ModelComputeCost ==
    /\ pc = "done"
    /\ \E p \in Range(pts) :
       \E out \in CostOutcomes(p, model.centroids) :
          query' = [op |-> "ComputeCost", p |-> p, fault |-> out.fault,
                    id |-> 0, cost |-> out.cost]
    /\ UNCHANGED <<pts, part, dimensions, num_clusters, iterations, pc, iter,
                   centroids, local_centroids, assigned, pre, post,
                   emitted_ids, model, sample, pool, pool_in>>

\* ComputeCost(points): the Map of ComputeCost(p) over the points, then Sum.
RECURSIVE TotalCost(_, _)
TotalCost(ps, cs) ==
    IF ps = <<>> THEN <<0, 1>>
    ELSE AddR(ComputeCost(Head(ps), cs), TotalCost(Tail(ps), cs))

Next ==
    \/ Sample
    \/ AllGather
    \/ \E w \in Workers : MapStep(w)
    \/ \E w \in Workers : Flush(w)
    \/ Collect
    \/ Return

Spec == Init /\ [][Next]_vars

\* ------------------------------------- the model's queries on any centroids
MaxCentroids == 3              \* centroids of a directly constructed model
ApiDims == {1, 2}
ApiCoord == 0 .. 1
ApiDen == 1 .. 2

ApiPoints(d) == {MkPoint(xs) : xs \in [1 .. d -> ApiCoord]}

ApiCentroids(d) ==
    {NormP([num |-> xs, den |-> k]) : xs \in [1 .. d -> ApiCoord], k \in ApiDen}

\* KMeansModel(dimensions, num_clusters, iterations, centroids) constructed
\* directly, and one point to query it with.
InitModel ==
    /\ \E d \in ApiDims :
        /\ dimensions = d
        /\ \E p \in ApiPoints(d) : pts = <<p>>
        /\ \E n \in 0 .. MaxCentroids :
           \E cs \in [1 .. n -> ApiCentroids(d)] :
              /\ centroids = cs
              /\ num_clusters = n
    /\ model = [dimensions |-> dimensions, num_clusters |-> num_clusters,
                iterations |-> 0, centroids |-> centroids]
    /\ part = [j \in DOMAIN pts |-> 1]
    /\ iterations = 0
    /\ pc = "done"
    /\ iter = 0
    /\ local_centroids = [w \in Workers |-> <<>>]
    /\ assigned = [j \in DOMAIN pts |-> -1]
    /\ pre = [w \in Workers |-> {}]
    /\ post = {}
    /\ emitted_ids = <<>>
    /\ query = NoQuery
    /\ sample = <<>>
    /\ pool = <<>>
    /\ pool_in = <<>>

NextModel ==
    \/ ModelClassify
    \/ ModelComputeCost

SpecModel == InitModel /\ [][NextModel]_vars

\* ------------------------------------------- the combine function on its own
MaxPool == 3                   \* records of one key to merge
PoolIds == 0 .. 1
PoolDim == 2

\* Records of one cluster id as the assign step emits them (count = 1).
InitCombine ==
    /\ \E n \in 1 .. MaxPool :
       \E id \in PoolIds :
       \E ps \in [1 .. n -> [1 .. PoolDim -> ApiCoord]] :
          pool_in = [j \in 1 .. n |-> MkClosest(id, MkPoint(ps[j]), 1)]
    /\ pool = pool_in
    /\ pts = <<>>
    /\ part = <<>>
    /\ dimensions = PoolDim
    /\ num_clusters = 0
    /\ iterations = 0
    /\ pc = "pool"
    /\ iter = 0
    /\ centroids = <<>>
    /\ local_centroids = [w \in Workers |-> <<>>]
    /\ assigned = <<>>
    /\ pre = [w \in Workers |-> {}]
    /\ post = {}
    /\ emitted_ids = <<>>
    /\ model = NoModel
    /\ query = NoQuery
    /\ sample = <<>>

\* The sequence s without its j-th element.
Without(s, j) == [k \in 1 .. Len(s) - 1 |-> IF k < j THEN s[k] ELSE s[k + 1]]

\* ReduceByKey applies the combine function to any two records of the key,
\* in either argument order.
PoolCombine ==
    /\ pc = "pool"
    /\ \E i, j \in DOMAIN pool :
        /\ i # j
        /\ pool' = Without([pool EXCEPT ![i] = Combine(pool[i], pool[j])], j)
    /\ UNCHANGED <<pts, part, dimensions, num_clusters, iterations, pc, iter,
                   centroids, local_centroids, assigned, pre, post,
                   emitted_ids, model, query, sample, pool_in>>

NextCombine == PoolCombine

SpecCombine == InitCombine /\ [][NextCombine]_vars

\* ------------------------------------------------------------- properties
\* What the properties compare the run with: nearest-centroid choice and
\* means stated directly, not through the scan and the reduce tables.
\* Squared Euclidean distance of p and q as a fraction, not reduced.
SqDist(p, q) ==
    <<SumSq([c \in DOMAIN p.num |-> p.num[c] * q.den - q.num[c] * p.den]),
      (p.den * q.den) * (p.den * q.den)>>

\* The 0-based indices of the centroids at minimal distance from p.
Nearest(p, cs) ==
    {i \in 0 .. Len(cs) - 1 :
        \A k \in 0 .. Len(cs) - 1 : LeqR(SqDist(p, cs[i + 1]), SqDist(p, cs[k + 1]))}

\* id is the lowest index among the centroids at minimal distance from p.
LowestNearest(p, cs, id) ==
    /\ id \in 0 .. Len(cs) - 1
    /\ \A k \in 0 .. Len(cs) - 1 :
         IF k < id
         THEN LessR(SqDist(p, cs[id + 1]), SqDist(p, cs[k + 1]))
         ELSE LeqR(SqDist(p, cs[id + 1]), SqDist(p, cs[k + 1]))

AssignedTo(k) == {j \in DOMAIN pts : assigned[j] = k}

RECURSIVE CoordSum(_, _, _)
CoordSum(ps, J, c) ==
    IF J = {} THEN 0
    ELSE LET j == CHOOSE x \in J : TRUE
         IN  ps[j].num[c] + CoordSum(ps, J \ {j}, c)

\* Mean of the input points with index in J (J non-empty).
MeanOf(J) ==
    LET j0 == CHOOSE x \in J : TRUE
    IN  NormP([num |-> [c \in DOMAIN pts[j0].num |-> CoordSum(pts, J, c)],
               den |-> Cardinality(J)])

\* C1: on a non-empty centroid vector Classify returns the smallest index
\* whose centroid is at minimal squared distance from the point (ties go to
\* the lowest index).
C1_LowestNearest ==
    (query.op = "Classify" /\ ~query.fault /\ model.centroids # <<>>)
        => LowestNearest(query.p, model.centroids, query.id)

\* A tie between two different centroids, the later one not chosen.
C1_Witness ==
    /\ query.op = "Classify"
    /\ ~query.fault
    /\ \E i \in Nearest(query.p, model.centroids) :
        /\ i > query.id
        /\ model.centroids[i + 1] # model.centroids[query.id + 1]

\* C2: after an iteration, every cluster id that received a point has exactly
\* one new centroid, and it is the mean of exactly the input points the assign
\* step gave that id.
C2_CentroidIsMean ==
    (pc \in {"loop", "done"} /\ iter >= 1) =>
        /\ Len(emitted_ids) = Len(centroids)
        /\ \A k \in Range(assigned) :
             \E i \in DOMAIN centroids :
                /\ emitted_ids[i] = k
                /\ centroids[i] = MeanOf(AssignedTo(k))
                /\ \A i2 \in DOMAIN centroids : emitted_ids[i2] = k => i2 = i

\* A cluster whose points sat on both workers has been recomputed.
C2_Witness ==
    /\ pc = "loop"
    /\ iter >= 1
    /\ \E j1, j2 \in DOMAIN pts :
        /\ assigned[j1] = assigned[j2]
        /\ part[j1] # part[j2]
        /\ pts[j1] # pts[j2]

\* C3: merging records of one cluster id with the combine function, in any
\* pairwise order and grouping, ends in that id, the sum of the points and a
\* count equal to the number of records.
C3_MergeOrderFree ==
    (pc = "pool" /\ Len(pool) = 1) =>
        pool[1] = MkClosest(pool_in[1].cluster_id,
                            MkPoint([c \in 1 .. PoolDim |->
                                        CoordSum([j \in DOMAIN pool_in |->
                                                     pool_in[j].center.p],
                                                 DOMAIN pool_in, c)]),
                            Len(pool_in))

\* Three records of different points have been merged into one.
C3_Witness ==
    /\ pc = "pool"
    /\ Len(pool) = 1
    /\ Len(pool_in) >= 3
    /\ pool_in[1] # pool_in[2]
    /\ pool_in[2] # pool_in[3]

\* The run in which ReduceByKey delivers its output in cluster-id order.
RefAssign(p, cs) == IF cs = <<>> THEN 0 ELSE Classify(p, cs)

Ascending(S) == CHOOSE s \in Orders(S) : \A i, j \in DOMAIN s : i < j => s[i] < s[j]

RefStep(cs) ==
    LET ks == Ascending({RefAssign(pts[j], cs) : j \in DOMAIN pts})
    IN  [i \in DOMAIN ks |->
            MeanOf({j \in DOMAIN pts : RefAssign(pts[j], cs) = ks[i]})]

RECURSIVE RefRun(_, _)
RefRun(cs, t) == IF t = 0 THEN cs ELSE RefRun(RefStep(cs), t - 1)

\* C4: for fixed points, num_clusters, iterations and initial sample, the
\* centroids of the returned model are the same set whatever the partitioning
\* and whatever the order in which the engine delivers elements.
C4_OrderIndependent ==
    pc = "done" => Range(model.centroids) = Range(RefRun(sample, iterations))

\* C5: in the returned model, after at least one iteration, centroids()[i] is
\* the mean of the input points assigned cluster id i in the last iteration.
C5_ClusterIdOrder ==
    (pc = "done" /\ iterations >= 1) =>
        \A i \in DOMAIN model.centroids :
            /\ AssignedTo(i - 1) # {}
            /\ model.centroids[i] = MeanOf(AssignedTo(i - 1))

\* C6: the total cost of the input points under the centroids of one
\* iteration is never larger than under the centroids of the iteration before.
C6_CostNeverIncreases ==
    (pc \in {"loop", "done"} /\ iter >= 2) =>
        \A w \in Workers :
            LeqR(TotalCost(pts, centroids), TotalCost(pts, local_centroids[w]))

\* A second iteration has strictly lowered the cost.
C6_Witness ==
    /\ pc = "loop"
    /\ iter >= 2
    /\ LessR(TotalCost(pts, centroids), TotalCost(pts, local_centroids[1]))

\* C7: on an empty centroid set Classify, ComputeCost and the assign step end
\* in an error and return no cluster id and no cost.
C7_EmptyIsFatal ==
    /\ (query.op # "none" /\ model.centroids = <<>>) => query.fault
    /\ \A w \in Workers :
         (pc = "assign" /\ local_centroids[w] = <<>>) =>
            \A j \in DOMAIN pts : part[j] = w => assigned[j] = -1

\* C8: after every iteration there is exactly one centroid per cluster id that
\* received a point and none besides; the number of centroids never grows
\* from one iteration to the next and never exceeds num_clusters, which the
\* model reports as requested.
C8_OnlySurvivors ==
    /\ (pc \in {"loop", "done"} /\ iter >= 1) =>
          /\ Len(centroids) = Len(emitted_ids)
          /\ Injective(emitted_ids)
          /\ Range(emitted_ids) = Range(assigned)
          /\ \A w \in Workers : Len(centroids) <= Len(local_centroids[w])
          /\ Len(centroids) <= num_clusters
    /\ pc = "done" => model.num_clusters = num_clusters

\* C9: every point of an iteration is classified against the complete
\* centroid set the previous iteration finalized (the initial sample in the
\* first iteration), on every worker and under every interleaving.
C9_Barrier ==
    pc = "assign" =>
        /\ iter = 0 => centroids = sample
        /\ iter >= 1 => Len(centroids) = Len(emitted_ids)
        /\ \A w \in Workers : local_centroids[w] = centroids
        /\ \A j \in DOMAIN pts :
             (assigned[j] # -1 /\ centroids # <<>>)
                 => LowestNearest(pts[j], centroids, assigned[j])

\* In the second iteration one worker has classified a point while the other
\* still has one to do.
C9_Witness ==
    /\ pc = "assign"
    /\ iter = 1
    /\ Len(centroids) >= 2
    /\ \E j1, j2 \in DOMAIN pts :
        /\ part[j1] # part[j2]
        /\ assigned[j1] # -1
        /\ assigned[j2] = -1

\* C10: with at least one input point and num_clusters >= 1 the centroid set
\* is non-empty at the start of every iteration and in the returned model.
C10_NeverEmpty ==
    (N >= 1 /\ num_clusters >= 1) =>
        /\ pc \in {"loop", "done"} => centroids # <<>>
        /\ pc = "assign" => \A w \in Workers : local_centroids[w] # <<>>
        /\ pc = "done" => model.centroids # <<>>

\* A cluster has vanished and the model is returned with the one that is left.
C10_Witness ==
    /\ pc = "done"
    /\ N >= 1
    /\ num_clusters >= 2
    /\ iterations >= 2
    /\ Len(model.centroids) = 1

====
